---- MODULE Spec2Model ----
(***************************************************************************)
(* The HTTP management layer of the notification-rule resource             *)
(* (http/notification_rule.go): the request decoders, the per-verb         *)
(* handlers, the response composer, the label attachment on create and the *)
(* client-side NotificationRuleService.                                    *)
(*                                                                         *)
(* One action is one whole request: decode, collaborator calls, response.  *)
(* The collaborators behind interfaces (rule store, task, label, endpoint  *)
(* services, the authorizer accessor, influxdb.ID) are modelled from their *)
(* contracts; each call they may fail is an input of the action.           *)
(***************************************************************************)
EXTENDS Integers, Sequences, FiniteSets, TLC

VARIABLES
    store,      \* which NotificationRuleStore the handler was built with
    rules,      \* the persisted rules: rule ID -> rule
    nextID,     \* the next identifier the store assigns
    mappings,   \* the label service's LabelMapping records
    req,        \* the request handled last
    resp,       \* the response to it
    calls,      \* the collaborator calls that request made, in order
    acked       \* rule IDs a DELETE was answered 204 for

vars == <<store, rules, nextID, mappings, req, resp, calls, acked>>

----------------------------------------------------------------------------
(* Bounds *)

MaxRules == 2       \* rules the store ever creates
MaxLabelStrs == 2   \* label-ID strings in one create request
MaxTags == 2         \* tag parameters of one list request

----------------------------------------------------------------------------
(* influxdb.ID and its string form *)

IDLength == 16

HexDigits == <<"0", "1", "2", "3", "4", "5", "6", "7",
               "8", "9", "a", "b", "c", "d", "e", "f">>

HexValue(c) == CHOOSE i \in 0..15 : HexDigits[i + 1] = c

IsHex(c) == \E i \in 1..16 : HexDigits[i] = c

RECURSIVE ParseUint16(_)
ParseUint16(s) ==
    IF s = <<>> THEN 0
    ELSE 16 * ParseUint16(SubSeq(s, 1, Len(s) - 1)) + HexValue(s[Len(s)])

Pad(n) == [i \in 1..n |-> "0"]

\* ID.String(): the 16 hexadecimal digits of a (small) identifier
IDString(id) == Pad(IDLength - 1) \o <<HexDigits[id + 1]>>

NoErr == [code |-> "", msg |-> ""]

EInvalid == "invalid"
EInternal == "internal error"
ENotFound == "not found"
EUnauthorized == "unauthorized"

Err(code, msg) == [code |-> code, msg |-> msg]

ErrInvalidIDLength == Err(EInvalid, "id must have a length of 16 bytes")
ErrInvalidID == Err(EInvalid, "invalid ID")

\* ID.Decode: the length, the hexadecimal digits, and zero is no identifier
Decode(s) ==
    IF Len(s) # IDLength THEN [err |-> ErrInvalidIDLength, id |-> 0]
    ELSE IF \E i \in 1..Len(s) : ~IsHex(s[i]) THEN [err |-> ErrInvalidID, id |-> 0]
    ELSE LET res == ParseUint16(s)
         IN IF res = 0 THEN [err |-> ErrInvalidID, id |-> 0]
            ELSE [err |-> NoErr, id |-> res]

\* every identifier string a request of the model carries
IDStrings ==
    {<<>>, <<"1">>, <<"z">>, Pad(IDLength - 1) \o <<"g">>, Pad(IDLength)}
    \cup {IDString(i) : i \in 1..15}

Decoded == [s \in IDStrings |-> Decode(s)]

\* ID.DecodeFromString (Decode, tabulated over the strings of the model)
DecodeFromString(s) == Decoded[s]

----------------------------------------------------------------------------
(* The domain rule and its collaborators *)

Secret == "secret"

\* a rule as the store holds it (id 0 / taskID 0: not assigned)
Rule(id, name) == [id |-> id, taskID |-> id, private |-> Secret, name |-> name]

\* the rule a create or replace body decodes to
BodyRule(name) == [id |-> 0, taskID |-> 0, private |-> Secret, name |-> name]

NilRule == [id |-> 0, taskID |-> 0, private |-> "", name |-> "nil"]

\* NotificationRule.ClearPrivateData
ClearPrivateData(nr) == [nr EXCEPT !.private = ""]

\* one collaborator call: its argument, the error it returned, its result
Call(op, arg, err, ret) == [op |-> op, arg |-> arg, err |-> err, ret |-> ret]

ErrTask == Err(EInternal, "task service")
ErrTaskNotFound == Err(ENotFound, "task not found")
ErrLabels == Err(EInternal, "label service")
ErrLabelNotFound == Err(ENotFound, "label not found")
ErrMapping == Err(EInternal, "label mapping")
ErrStore == Err(EInternal, "rule store")
ErrRuleNotFound == Err(ENotFound, "notification rule not found")
ErrStoreRejects == Err("conflict", "rule store rejects")
ErrEndpoint == Err(ENotFound, "endpoint not found")
ErrWire == Err(EInternal, "http client")
ErrNoAuthorizer == Err(EUnauthorized, "authorizer not found on context")

\* TaskService.FindTaskByID: the task of a rule exists while the rule does
FindTaskByID(rs, tid, fail) ==
    IF fail THEN [err |-> ErrTask, status |-> ""]
    ELSE IF \E id \in DOMAIN rs : rs[id].taskID = tid
         THEN [err |-> NoErr, status |-> "active"]
         ELSE [err |-> ErrTaskNotFound, status |-> ""]

ExistingLabels == {1}

NotificationRuleResourceType == "notificationRule"
TelegrafsResourceType == "telegrafs"

\* LabelService.FindLabelByID
FindLabelByID(lid) ==
    IF lid \in ExistingLabels THEN [err |-> NoErr, label |-> lid]
    ELSE [err |-> ErrLabelNotFound, label |-> 0]

\* LabelService.CreateLabelMapping
CreateLabelMapping(maps, m, fail) ==
    IF fail THEN [err |-> ErrMapping, mappings |-> maps]
    ELSE [err |-> NoErr, mappings |-> maps \cup {m}]

RECURSIVE SortedSeq(_)
SortedSeq(S) ==
    IF S = {} THEN <<>>
    ELSE LET m == CHOOSE x \in S : \A y \in S : x <= y
         IN <<m>> \o SortedSeq(S \ {m})

\* LabelService.FindResourceLabels with LabelMappingFilter{ResourceID: rid}
FindResourceLabels(maps, rid, fail) ==
    IF fail THEN [err |-> ErrLabels, labels |-> <<>>]
    ELSE [err |-> NoErr,
          labels |-> SortedSeq({m.LabelID : m \in {x \in maps : x.ResourceID = rid}})]

\* pctx.GetAuthorizer
GetAuthorizer(auth) == IF auth THEN NoErr ELSE ErrNoAuthorizer

----------------------------------------------------------------------------
(* NotificationRuleStore: the persistent store (its interface contract)    *)

kvFindNotificationRuleByID(rs, id, fail) ==
    IF fail THEN [err |-> ErrStore, nr |-> NilRule]
    ELSE IF id \in DOMAIN rs THEN [err |-> NoErr, nr |-> rs[id]]
    ELSE [err |-> ErrRuleNotFound, nr |-> NilRule]

\* the page of matching rules, in the store's order, and the total count
kvFindNotificationRules(rs, limit, fail) ==
    IF fail THEN [err |-> ErrStore, nrs |-> <<>>, n |-> 0]
    ELSE LET all == SortedSeq(DOMAIN rs)
             page == SubSeq(all, 1, IF limit < Len(all) THEN limit ELSE Len(all))
         IN [err |-> NoErr, nrs |-> [i \in 1..Len(page) |-> rs[page[i]]], n |-> Len(all)]

\* creates the rule and sets the new identifier on nr
kvCreateNotificationRule(rs, nid, nr, fail) ==
    IF fail THEN [err |-> ErrStoreRejects, rules |-> rs, nextID |-> nid, nr |-> nr]
    ELSE LET r == [nr EXCEPT !.id = nid, !.taskID = nid]
         IN [err |-> NoErr, rules |-> (nid :> r) @@ rs, nextID |-> nid + 1, nr |-> r]

kvUpdateNotificationRule(rs, id, nr, fail) ==
    IF fail THEN [err |-> ErrStore, rules |-> rs, nr |-> NilRule]
    ELSE IF id \notin DOMAIN rs THEN [err |-> ErrRuleNotFound, rules |-> rs, nr |-> NilRule]
    ELSE LET r == [nr EXCEPT !.id = id, !.taskID = rs[id].taskID]
         IN [err |-> NoErr, rules |-> [rs EXCEPT ![id] = r], nr |-> r]

\* a changeset: name is "" (invalid), "nil" (not set) or a new name
kvPatchNotificationRule(rs, id, upd, fail) ==
    IF fail THEN [err |-> ErrStore, rules |-> rs, nr |-> NilRule]
    ELSE IF id \notin DOMAIN rs THEN [err |-> ErrRuleNotFound, rules |-> rs, nr |-> NilRule]
    ELSE LET r == IF upd.name = "nil" THEN rs[id] ELSE [rs[id] EXCEPT !.name = upd.name]
         IN [err |-> NoErr, rules |-> [rs EXCEPT ![id] = r], nr |-> r]

kvDeleteNotificationRule(rs, id, fail) ==
    IF fail THEN [err |-> ErrStore, rules |-> rs]
    ELSE IF id \notin DOMAIN rs THEN [err |-> ErrRuleNotFound, rules |-> rs]
    ELSE [err |-> NoErr, rules |-> [x \in DOMAIN rs \ {id} |-> rs[x]]]


----------------------------------------------------------------------------
(* NotificationRuleService: the client-side store over HTTP.  rs is the    *)
(* rule set of the server it talks to; wire tells whether a request left.  *)

\* POSTs the rule; the decoded answer is dropped, nr keeps its unset ID
svcCreateNotificationRule(rs, nid, nr, fail) ==
    IF fail THEN [err |-> ErrWire, rules |-> rs, nextID |-> nid, nr |-> nr, wire |-> TRUE]
    ELSE [err |-> NoErr, rules |-> (nid :> [nr EXCEPT !.id = nid, !.taskID = nid]) @@ rs,
          nextID |-> nid + 1, nr |-> nr, wire |-> TRUE]

\* GETs the rule document of the server
svcFindNotificationRuleByID(rs, id, fail) ==
    IF fail THEN [err |-> ErrWire, nr |-> NilRule, wire |-> TRUE]
    ELSE IF id \in DOMAIN rs
         THEN [err |-> NoErr, nr |-> ClearPrivateData(rs[id]), wire |-> TRUE]
         ELSE [err |-> ErrRuleNotFound, nr |-> NilRule, wire |-> TRUE]

svcFindNotificationRules(rs, limit, fail) ==
    [err |-> NoErr, nrs |-> <<>>, n |-> 0, wire |-> FALSE]

svcUpdateNotificationRule(rs, id, nr, fail) ==
    [err |-> NoErr, rules |-> rs, nr |-> NilRule, wire |-> FALSE]

svcPatchNotificationRule(rs, id, upd, fail) ==
    [err |-> NoErr, rules |-> rs, nr |-> NilRule, wire |-> FALSE]

\* a DeleteNotificationRule that sends the DELETE request
svcDeleteNotificationRule_Wired(rs, id, fail) ==
    [err |-> kvDeleteNotificationRule(rs, id, fail).err,
     rules |-> kvDeleteNotificationRule(rs, id, fail).rules, wire |-> TRUE]

svcDeleteNotificationRule(rs, id, fail) ==
    [err |-> NoErr, rules |-> rs, wire |-> FALSE]

\* h.NotificationRuleStore: whichever implementation the backend supplied
StoreImpls == {"kv", "http"}

----------------------------------------------------------------------------
(* Responses *)

NoDoc == [rule |-> NilRule, labels |-> <<>>, links |-> 0, status |-> ""]

Response(status, kind, err, docs) ==
    [status |-> status, kind |-> kind, err |-> err, docs |-> docs]

\* h.HandleHTTPError(ctx, err, w)
HandleHTTPError(err) == Response("error", "error", err, <<>>)

\* a panic in the handler: the server recovers, nothing is written
Panic == Response("panic", "none", NoErr, <<>>)

NoResponse == Response("", "none", NoErr, <<>>)

Outcome(r, cs, rs, nid, maps) ==
    [resp |-> r, calls |-> cs, rules |-> rs, nextID |-> nid, mappings |-> maps]

\* newNotificationRuleResponse without the nr.ClearPrivateData() step
newNotificationRuleResponse_KeepsPrivate(rs, nr, labels, taskFail) ==
    LET t == FindTaskByID(rs, nr.taskID, taskFail)
        cs == <<Call("FindTaskByID", nr.taskID, t.err, <<>>)>>
    IN IF t.err # NoErr THEN [err |-> t.err, res |-> NoDoc, calls |-> cs]
       ELSE [err |-> NoErr,
             res |-> [rule |-> nr, labels |-> labels, links |-> nr.id, status |-> t.status],
             calls |-> cs]

\* newNotificationRuleResponse going on without the task when its lookup fails
newNotificationRuleResponse_IgnoresTaskError(rs, nr, labels, taskFail) ==
    LET t == FindTaskByID(rs, nr.taskID, taskFail)
        cs == <<Call("FindTaskByID", nr.taskID, t.err, <<>>)>>
    IN [err |-> NoErr,
        res |-> [rule |-> ClearPrivateData(nr), labels |-> labels, links |-> nr.id,
                 status |-> t.status],
        calls |-> cs]

\* the composed document of one rule; rs is the store at the time of the call
newNotificationRuleResponse(rs, nr, labels, taskFail) ==
    LET t == FindTaskByID(rs, nr.taskID, taskFail)
        cs == <<Call("FindTaskByID", nr.taskID, t.err, <<>>)>>
    IN IF t.err # NoErr THEN [err |-> t.err, res |-> NoDoc, calls |-> cs]
       ELSE [err |-> NoErr,
             res |-> [rule |-> ClearPrivateData(nr), labels |-> labels,
                      links |-> nr.id, status |-> t.status],
             calls |-> cs]

\* newNotificationRulesResponse returning the first composition error
\* instead of skipping the rule
RECURSIVE newNotificationRulesResponse_FailsWhole(_, _, _, _, _)
newNotificationRulesResponse_FailsWhole(rs, maps, nrs, labelFail, taskFail) ==
    IF nrs = <<>> THEN [err |-> NoErr, docs |-> <<>>, calls |-> <<>>]
    ELSE LET nr == Head(nrs)
             l == FindResourceLabels(maps, nr.id, nr.id \in labelFail)
             r == newNotificationRuleResponse(rs, nr, l.labels, nr.id \in taskFail)
             cs == <<Call("FindResourceLabels", nr.id, l.err, l.labels)>> \o r.calls
             rest == newNotificationRulesResponse_FailsWhole(rs, maps, Tail(nrs), labelFail,
                                                             taskFail)
         IN IF r.err # NoErr THEN [err |-> r.err, docs |-> <<>>, calls |-> cs]
            ELSE [err |-> rest.err,
                  docs |-> IF rest.err # NoErr THEN <<>> ELSE <<r.res>> \o rest.docs,
                  calls |-> cs \o rest.calls]

\* newNotificationRulesResponse skipping a rule whose labels it cannot fetch
RECURSIVE newNotificationRulesResponse_DropsOnLabelError(_, _, _, _, _)
newNotificationRulesResponse_DropsOnLabelError(rs, maps, nrs, labelFail, taskFail) ==
    IF nrs = <<>> THEN [err |-> NoErr, docs |-> <<>>, calls |-> <<>>]
    ELSE LET nr == Head(nrs)
             l == FindResourceLabels(maps, nr.id, nr.id \in labelFail)
             cl == <<Call("FindResourceLabels", nr.id, l.err, l.labels)>>
             r == newNotificationRuleResponse(rs, nr, l.labels, nr.id \in taskFail)
             rest == newNotificationRulesResponse_DropsOnLabelError(rs, maps, Tail(nrs),
                                                                    labelFail, taskFail)
         IN IF l.err # NoErr THEN [rest EXCEPT !.calls = cl \o @]
            ELSE [err |-> NoErr,
                  docs |-> (IF r.err # NoErr THEN <<>> ELSE <<r.res>>) \o rest.docs,
                  calls |-> cl \o r.calls \o rest.calls]

\* newNotificationRulesResponse putting each document in front of the others
RECURSIVE newNotificationRulesResponse_Reversed(_, _, _, _, _)
newNotificationRulesResponse_Reversed(rs, maps, nrs, labelFail, taskFail) ==
    IF nrs = <<>> THEN [err |-> NoErr, docs |-> <<>>, calls |-> <<>>]
    ELSE LET nr == Head(nrs)
             l == FindResourceLabels(maps, nr.id, nr.id \in labelFail)
             r == newNotificationRuleResponse(rs, nr, l.labels, nr.id \in taskFail)
             rest == newNotificationRulesResponse_Reversed(rs, maps, Tail(nrs), labelFail,
                                                           taskFail)
         IN [err |-> NoErr,
             docs |-> rest.docs \o (IF r.err # NoErr THEN <<>> ELSE <<r.res>>),
             calls |-> <<Call("FindResourceLabels", nr.id, l.err, l.labels)>>
                       \o r.calls \o rest.calls]

RECURSIVE newNotificationRulesResponse(_, _, _, _, _)
newNotificationRulesResponse(rs, maps, nrs, labelFail, taskFail) ==
    IF nrs = <<>> THEN [err |-> NoErr, docs |-> <<>>, calls |-> <<>>]
    ELSE LET nr == Head(nrs)
             l == FindResourceLabels(maps, nr.id, nr.id \in labelFail)
             r == newNotificationRuleResponse(rs, nr, l.labels, nr.id \in taskFail)
             rest == newNotificationRulesResponse(rs, maps, Tail(nrs), labelFail, taskFail)
         IN [err |-> NoErr,
             docs |-> (IF r.err # NoErr THEN <<>> ELSE <<r.res>>) \o rest.docs,
             calls |-> <<Call("FindResourceLabels", nr.id, l.err, l.labels)>>
                       \o r.calls \o rest.calls]

\* decodeGetNotificationRuleRequest dropping the error of DecodeFromString
decodeGetNotificationRuleRequest_Unchecked(id) ==
    IF id = <<>> THEN [err |-> Err(EInvalid, "url missing id"), id |-> 0]
    ELSE [err |-> NoErr, id |-> DecodeFromString(id).id]

decodeGetNotificationRuleRequest(id) ==
    IF id = <<>> THEN [err |-> Err(EInvalid, "url missing id"), id |-> 0]
    ELSE DecodeFromString(id)


----------------------------------------------------------------------------
(* Filter Decoder *)

Query(resourceID, userID, orgID, org, tags, limit) ==
    [resourceID |-> resourceID, userID |-> userID, orgID |-> orgID, org |-> org,
     tags |-> tags, limit |-> limit]

ZeroURMFilter == [ResourceType |-> "", ResourceID |-> 0, UserID |-> 0]

decodeUserResourceMappingFilter(q, typ) ==
    LET rid == DecodeFromString(q.resourceID)
        uid == DecodeFromString(q.userID)
    IN IF q.resourceID # <<>> /\ rid.err # NoErr THEN [err |-> rid.err, f |-> ZeroURMFilter]
       ELSE IF q.userID # <<>> /\ uid.err # NoErr THEN [err |-> uid.err, f |-> ZeroURMFilter]
       ELSE [err |-> NoErr,
             f |-> [ResourceType |-> typ,
                    ResourceID |-> IF q.resourceID # <<>> THEN rid.id ELSE 0,
                    UserID |-> IF q.userID # <<>> THEN uid.id ELSE 0]]

\* decodeFindOptions: the limit must be a positive page size
decodeFindOptions(q) ==
    IF q.limit < 1 THEN [err |-> Err(EInvalid, "limit must be between 1 and 100"), limit |-> 0]
    ELSE [err |-> NoErr, limit |-> q.limit]

Positions(s, c) == {i \in 1..Len(s) : s[i] = c}

\* influxdb.NewTag: "key:value" with a key and a value
NewTag(tag) ==
    LET at == Positions(tag, ":")
        i == CHOOSE x \in at : TRUE
    IN IF Cardinality(at) # 1 THEN [err |-> Err(EInvalid, "malformed tag"), tag |-> <<>>]
       ELSE IF i = 1 \/ i = Len(tag) THEN [err |-> Err(EInvalid, "malformed tag"), tag |-> <<>>]
       ELSE [err |-> NoErr,
             tag |-> <<[Key |-> SubSeq(tag, 1, i - 1), Value |-> SubSeq(tag, i + 1, Len(tag))]>>]

\* the loop over q["tag"] leaving at the first malformed tag
RECURSIVE decodeTags_StopsAtMalformed(_)
decodeTags_StopsAtMalformed(tags) ==
    IF tags = <<>> THEN <<>>
    ELSE LET tp == NewTag(Head(tags))
         IN IF tp.err = NoErr THEN tp.tag \o decodeTags_StopsAtMalformed(Tail(tags))
            ELSE <<>>

RECURSIVE decodeTags(_)
decodeTags(tags) ==
    IF tags = <<>> THEN <<>>
    ELSE LET tp == NewTag(Head(tags))
         IN (IF tp.err = NoErr THEN tp.tag ELSE <<>>) \o decodeTags(Tail(tags))

ZeroFilter ==
    [UserResourceMappingFilter |-> ZeroURMFilter, OrgID |-> 0, Organization |-> "nil",
     Tags |-> <<>>]

\* panic: the assignment through the nil f.Organization
decodeNotificationRuleFilter(q) ==
    LET urm == decodeUserResourceMappingFilter(q, NotificationRuleResourceType)
        f0 == [ZeroFilter EXCEPT !.UserResourceMappingFilter =
                                     IF urm.err = NoErr THEN urm.f ELSE ZeroURMFilter]
        opts == decodeFindOptions(q)
        orgID == DecodeFromString(q.orgID)
    IN IF opts.err # NoErr THEN [panic |-> FALSE, err |-> opts.err, f |-> f0, limit |-> 0]
       ELSE IF q.orgID # <<>> /\ orgID.err # NoErr
            THEN [panic |-> FALSE, err |-> Err(EInvalid, "orgID is invalid"), f |-> f0,
                  limit |-> opts.limit]
       ELSE IF q.orgID = <<>> /\ q.org # <<>>
            THEN [panic |-> TRUE, err |-> NoErr, f |-> f0, limit |-> opts.limit]
       ELSE [panic |-> FALSE, err |-> NoErr,
             f |-> [f0 EXCEPT !.OrgID = IF q.orgID # <<>> THEN orgID.id ELSE 0,
                              !.Tags = decodeTags(q.tags)],
             limit |-> opts.limit]


----------------------------------------------------------------------------
(* Calls through h.NotificationRuleStore *)

\* the log of one store call: the call and, for the HTTP client, its request
StoreCalls(op, arg, r, ret) ==
    <<Call(op, arg, r.err, ret)>>
    \o (IF store = "http" /\ r.wire THEN <<Call("Client.Do", arg, r.err, <<>>)>>
        ELSE <<>>)

FindNotificationRuleByID(id, fail) ==
    IF store = "kv" THEN kvFindNotificationRuleByID(rules, id, fail)
    ELSE svcFindNotificationRuleByID(rules, id, fail)

FindNotificationRules(limit, fail) ==
    IF store = "kv" THEN kvFindNotificationRules(rules, limit, fail)
    ELSE svcFindNotificationRules(rules, limit, fail)

CreateNotificationRule(nr, fail) ==
    IF store = "kv" THEN kvCreateNotificationRule(rules, nextID, nr, fail)
    ELSE svcCreateNotificationRule(rules, nextID, nr, fail)

UpdateNotificationRule(id, nr, fail) ==
    IF store = "kv" THEN kvUpdateNotificationRule(rules, id, nr, fail)
    ELSE svcUpdateNotificationRule(rules, id, nr, fail)

PatchNotificationRule(id, upd, fail) ==
    IF store = "kv" THEN kvPatchNotificationRule(rules, id, upd, fail)
    ELSE svcPatchNotificationRule(rules, id, upd, fail)

DeleteNotificationRule(id, fail) ==
    IF store = "kv" THEN kvDeleteNotificationRule(rules, id, fail)
    ELSE svcDeleteNotificationRule(rules, id, fail)

Unchanged(r, cs) == Outcome(r, cs, rules, nextID, mappings)

----------------------------------------------------------------------------
(* Read handlers *)

handleGetNotificationRules(q, storeFail, labelFail, taskFail) ==
    LET d == decodeNotificationRuleFilter(q)
        f == FindNotificationRules(d.limit, storeFail)
        cf == StoreCalls("FindNotificationRules", d.f, f, [nrs |-> f.nrs, n |-> f.n])
        res == newNotificationRulesResponse(rules, mappings, f.nrs, labelFail, taskFail)
    IN IF d.panic THEN Unchanged(Panic, <<>>)
       ELSE IF d.err # NoErr THEN Unchanged(HandleHTTPError(d.err), <<>>)
       ELSE IF f.err # NoErr THEN Unchanged(HandleHTTPError(f.err), cf)
       ELSE IF res.err # NoErr THEN Unchanged(HandleHTTPError(res.err), cf \o res.calls)
       ELSE Unchanged(Response("200", "rules", NoErr, res.docs), cf \o res.calls)

handleGetNotificationRule(idStr, storeFail, labelFail, taskFail) ==
    LET d == decodeGetNotificationRuleRequest(idStr)
        f == FindNotificationRuleByID(d.id, storeFail)
        cf == StoreCalls("FindNotificationRuleByID", d.id, f, <<>>)
        l == FindResourceLabels(mappings, f.nr.id, labelFail)
        cl == cf \o <<Call("FindResourceLabels", f.nr.id, l.err, l.labels)>>
        res == newNotificationRuleResponse(rules, f.nr, l.labels, taskFail)
    IN IF d.err # NoErr THEN Unchanged(HandleHTTPError(d.err), <<>>)
       ELSE IF f.err # NoErr THEN Unchanged(HandleHTTPError(f.err), cf)
       ELSE IF f.nr = NilRule THEN Unchanged(Panic, cf)
       ELSE IF l.err # NoErr THEN Unchanged(HandleHTTPError(l.err), cl)
       ELSE IF res.err # NoErr THEN Unchanged(HandleHTTPError(res.err), cl \o res.calls)
       ELSE Unchanged(Response("200", "rule", NoErr, <<res.res>>), cl \o res.calls)

ErrFlux == Err(EInvalid, "rule cannot target the endpoint")

\* nr.GenerateFlux(edp)
GenerateFlux(nr, fail) == IF fail THEN ErrFlux ELSE NoErr

\* handleGetNotificationRuleQuery wrapping the error of GenerateFlux the way it
\* wraps the error of the endpoint lookup
handleGetNotificationRuleQuery_WrapsFluxError(idStr, storeFail, endpointFail, fluxFail) ==
    LET d == decodeGetNotificationRuleRequest(idStr)
        f == FindNotificationRuleByID(d.id, storeFail)
        cf == StoreCalls("FindNotificationRuleByID", d.id, f, <<>>)
        ce == cf \o <<Call("FindNotificationEndpointByID", f.nr.id,
                           IF endpointFail THEN ErrEndpoint ELSE NoErr, <<>>)>>
        flux == GenerateFlux(f.nr, fluxFail)
    IN IF d.err # NoErr THEN Unchanged(HandleHTTPError(d.err), <<>>)
       ELSE IF f.err # NoErr THEN Unchanged(HandleHTTPError(f.err), cf)
       ELSE IF f.nr = NilRule THEN Unchanged(Panic, cf)
       ELSE IF endpointFail \/ flux # NoErr
            THEN Unchanged(HandleHTTPError(Err(EInternal, "http/handleGetNotificationRuleQuery")), ce)
       ELSE Unchanged(Response("200", "flux", NoErr, <<>>), ce)

handleGetNotificationRuleQuery(idStr, storeFail, endpointFail, fluxFail) ==
    LET d == decodeGetNotificationRuleRequest(idStr)
        f == FindNotificationRuleByID(d.id, storeFail)
        cf == StoreCalls("FindNotificationRuleByID", d.id, f, <<>>)
        ce == cf \o <<Call("FindNotificationEndpointByID", f.nr.id,
                           IF endpointFail THEN ErrEndpoint ELSE NoErr, <<>>)>>
        flux == GenerateFlux(f.nr, fluxFail)
    IN IF d.err # NoErr THEN Unchanged(HandleHTTPError(d.err), <<>>)
       ELSE IF f.err # NoErr THEN Unchanged(HandleHTTPError(f.err), cf)
       ELSE IF f.nr = NilRule THEN Unchanged(Panic, cf)
       ELSE IF endpointFail
            THEN Unchanged(HandleHTTPError(Err(EInternal, "http/handleGetNotificationRuleQuery")), ce)
       ELSE IF flux # NoErr THEN Unchanged(HandleHTTPError(flux), ce)
       ELSE Unchanged(Response("200", "flux", NoErr, <<>>), ce)

handleDeleteNotificationRule(idStr, storeFail) ==
    LET d == decodeGetNotificationRuleRequest(idStr)
        r == DeleteNotificationRule(d.id, storeFail)
        cr == StoreCalls("DeleteNotificationRule", d.id, r, <<>>)
    IN IF d.err # NoErr THEN Unchanged(HandleHTTPError(d.err), <<>>)
       ELSE IF r.err # NoErr THEN Unchanged(HandleHTTPError(r.err), cr)
       ELSE Outcome(Response("204", "empty", NoErr, <<>>), cr, r.rules, nextID, mappings)


----------------------------------------------------------------------------
(* Request bodies and their decoders *)

\* kind: what the body is; name: the rule's name; labels: its label-ID strings
Body(kind, name, labels) == [kind |-> kind, name |-> name, labels |-> labels]

NoBody == Body("none", "nil", <<>>)

\* an error of encoding/json, which carries no influxdb error code
ErrJSON == Err("", "json: cannot unmarshal")

NoRequestRule == [panic |-> FALSE, err |-> NoErr, nr |-> NilRule, labels |-> <<>>]

\* panic: *sts.Status when the body has no status
decodePostNotificationRuleRequest(body) ==
    IF body.kind = "unreadable" THEN [NoRequestRule EXCEPT !.err = Err(EInvalid, "read body")]
    ELSE IF body.kind = "badType" THEN [NoRequestRule EXCEPT !.err = Err(EInvalid, "rule type")]
    ELSE IF body.kind = "badStatus" THEN [NoRequestRule EXCEPT !.err = ErrJSON]
    ELSE IF body.kind = "badLabels" THEN [NoRequestRule EXCEPT !.err = ErrJSON]
    ELSE IF body.kind = "noStatus" THEN [NoRequestRule EXCEPT !.panic = TRUE]
    ELSE [panic |-> FALSE, err |-> NoErr, nr |-> BodyRule(body.name), labels |-> body.labels]

decodePutNotificationRuleRequest(idStr, body) ==
    LET i == DecodeFromString(idStr)
    IN IF body.kind = "unreadable" THEN [NoRequestRule EXCEPT !.err = Err(EInvalid, "read body")]
       ELSE IF body.kind = "badType" THEN [NoRequestRule EXCEPT !.err = Err(EInvalid, "rule type")]
       ELSE IF idStr = <<>> THEN [NoRequestRule EXCEPT !.err = Err(EInvalid, "url missing id")]
       ELSE IF i.err # NoErr THEN [NoRequestRule EXCEPT !.err = i.err]
       ELSE IF body.kind = "badStatus" THEN [NoRequestRule EXCEPT !.err = ErrJSON]
       ELSE IF body.kind = "noStatus" THEN [NoRequestRule EXCEPT !.panic = TRUE]
       ELSE [panic |-> FALSE, err |-> NoErr, nr |-> [BodyRule(body.name) EXCEPT !.id = i.id],
             labels |-> <<>>]

\* NotificationRuleUpdate.Valid: a name that is set must not be empty
Valid(upd) == IF upd.name = "" THEN Err(EInvalid, "Notification Rule Name can't be empty")
              ELSE NoErr

\* decodePatchNotificationRuleRequest without the upd.Valid() step
decodePatchNotificationRuleRequest_NoValidation(idStr, body) ==
    LET i == DecodeFromString(idStr)
        upd == [name |-> body.name]
    IN IF idStr = <<>> THEN [err |-> Err(EInvalid, "url missing id"), id |-> 0, upd |-> upd]
       ELSE IF i.err # NoErr THEN [err |-> i.err, id |-> 0, upd |-> upd]
       ELSE IF body.kind # "ok" THEN [err |-> Err(EInvalid, "json"), id |-> i.id, upd |-> upd]
       ELSE [err |-> NoErr, id |-> i.id, upd |-> upd]

decodePatchNotificationRuleRequest(idStr, body) ==
    LET i == DecodeFromString(idStr)
        upd == [name |-> body.name]
    IN IF idStr = <<>> THEN [err |-> Err(EInvalid, "url missing id"), id |-> 0, upd |-> upd]
       ELSE IF i.err # NoErr THEN [err |-> i.err, id |-> 0, upd |-> upd]
       ELSE IF body.kind # "ok" THEN [err |-> Err(EInvalid, "json"), id |-> i.id, upd |-> upd]
       ELSE IF Valid(upd) # NoErr
            THEN [err |-> Err(EInvalid, Valid(upd).msg), id |-> i.id, upd |-> upd]
       ELSE [err |-> NoErr, id |-> i.id, upd |-> upd]

----------------------------------------------------------------------------
(* Label Association Manager *)

RECURSIVE mapLabelsFrom(_, _, _, _, _)
mapLabelsFrom(maps, rid, labels, mapFail, i) ==
    IF i > Len(labels) THEN [ls |-> <<>>, mappings |-> maps, calls |-> <<>>]
    ELSE LET lid == DecodeFromString(labels[i])
             label == FindLabelByID(lid.id)
             mapping == [LabelID |-> label.label, ResourceID |-> rid,
                         ResourceType |-> NotificationRuleResourceType]
             cm == CreateLabelMapping(maps, mapping, i \in mapFail)
             cFind == Call("FindLabelByID", lid.id, label.err, <<>>)
             cMap == Call("CreateLabelMapping", mapping, cm.err, <<>>)
             skip == mapLabelsFrom(maps, rid, labels, mapFail, i + 1)
             next == mapLabelsFrom(cm.mappings, rid, labels, mapFail, i + 1)
         IN IF lid.err # NoErr THEN skip
            ELSE IF label.err # NoErr THEN [skip EXCEPT !.calls = <<cFind>> \o @]
            ELSE IF cm.err # NoErr THEN [skip EXCEPT !.calls = <<cFind, cMap>> \o @]
            ELSE [next EXCEPT !.ls = <<label.label>> \o @, !.calls = <<cFind, cMap>> \o @]

\* mapNewNotificationRuleLabels leaving the loop at the first label it cannot
\* attach instead of going on to the next
RECURSIVE mapLabelsUntilFailure(_, _, _, _, _)
mapLabelsUntilFailure(maps, rid, labels, mapFail, i) ==
    IF i > Len(labels) THEN [ls |-> <<>>, mappings |-> maps, calls |-> <<>>]
    ELSE LET lid == DecodeFromString(labels[i])
             label == FindLabelByID(lid.id)
             mapping == [LabelID |-> label.label, ResourceID |-> rid,
                         ResourceType |-> NotificationRuleResourceType]
             cm == CreateLabelMapping(maps, mapping, i \in mapFail)
             cFind == Call("FindLabelByID", lid.id, label.err, <<>>)
             cMap == Call("CreateLabelMapping", mapping, cm.err, <<>>)
             stop == [ls |-> <<>>, mappings |-> maps, calls |-> <<>>]
             next == mapLabelsUntilFailure(cm.mappings, rid, labels, mapFail, i + 1)
         IN IF lid.err # NoErr THEN stop
            ELSE IF label.err # NoErr THEN [stop EXCEPT !.calls = <<cFind>>]
            ELSE IF cm.err # NoErr THEN [stop EXCEPT !.calls = <<cFind, cMap>>]
            ELSE [next EXCEPT !.ls = <<label.label>> \o @, !.calls = <<cFind, cMap>> \o @]

mapNewNotificationRuleLabels_StopsEarly(maps, rid, labels, mapFail) ==
    mapLabelsUntilFailure(maps, rid, labels, mapFail, 1)

mapNewNotificationRuleLabels(maps, rid, labels, mapFail) ==
    mapLabelsFrom(maps, rid, labels, mapFail, 1)

----------------------------------------------------------------------------
(* Write handlers *)

\* handlePostNotificationRule undoing the create and the label mappings when
\* the response cannot be composed
handlePostNotificationRule_RollsBack(body, auth, storeFail, mapFail, taskFail) ==
    LET d == decodePostNotificationRuleRequest(body)
        a == GetAuthorizer(auth)
        c == CreateNotificationRule(d.nr, storeFail)
        cc == StoreCalls("CreateNotificationRule", d.nr, c, <<>>)
        ls == mapNewNotificationRuleLabels(mappings, c.nr.id, d.labels, mapFail)
        res == newNotificationRuleResponse(c.rules, c.nr, ls.ls, taskFail)
        cs == cc \o ls.calls \o res.calls
    IN IF d.panic THEN Unchanged(Panic, <<>>)
       ELSE IF d.err # NoErr THEN Unchanged(HandleHTTPError(d.err), <<>>)
       ELSE IF a # NoErr THEN Unchanged(HandleHTTPError(a), <<>>)
       ELSE IF c.err # NoErr THEN Outcome(HandleHTTPError(c.err), cc, c.rules, c.nextID, mappings)
       ELSE IF res.err # NoErr THEN Unchanged(HandleHTTPError(res.err), cs)
       ELSE Outcome(Response("201", "rule", NoErr, <<res.res>>), cs, c.rules, c.nextID,
                    ls.mappings)

\* handlePostNotificationRule without the pctx.GetAuthorizer step
handlePostNotificationRule_NoAuthorizer(body, auth, storeFail, mapFail, taskFail) ==
    LET d == decodePostNotificationRuleRequest(body)
        c == CreateNotificationRule(d.nr, storeFail)
        cc == StoreCalls("CreateNotificationRule", d.nr, c, <<>>)
        ls == mapNewNotificationRuleLabels(mappings, c.nr.id, d.labels, mapFail)
        res == newNotificationRuleResponse(c.rules, c.nr, ls.ls, taskFail)
        cs == cc \o ls.calls \o res.calls
    IN IF d.panic THEN Unchanged(Panic, <<>>)
       ELSE IF d.err # NoErr THEN Unchanged(HandleHTTPError(d.err), <<>>)
       ELSE IF c.err # NoErr THEN Outcome(HandleHTTPError(c.err), cc, c.rules, c.nextID, mappings)
       ELSE IF res.err # NoErr
            THEN Outcome(HandleHTTPError(res.err), cs, c.rules, c.nextID, ls.mappings)
       ELSE Outcome(Response("201", "rule", NoErr, <<res.res>>), cs, c.rules, c.nextID,
                    ls.mappings)

handlePostNotificationRule(body, auth, storeFail, mapFail, taskFail) ==
    LET d == decodePostNotificationRuleRequest(body)
        a == GetAuthorizer(auth)
        c == CreateNotificationRule(d.nr, storeFail)
        cc == StoreCalls("CreateNotificationRule", d.nr, c, <<>>)
        ls == mapNewNotificationRuleLabels(mappings, c.nr.id, d.labels, mapFail)
        res == newNotificationRuleResponse(c.rules, c.nr, ls.ls, taskFail)
        cs == cc \o ls.calls \o res.calls
    IN IF d.panic THEN Unchanged(Panic, <<>>)
       ELSE IF d.err # NoErr THEN Unchanged(HandleHTTPError(d.err), <<>>)
       ELSE IF a # NoErr THEN Unchanged(HandleHTTPError(a), <<>>)
       ELSE IF c.err # NoErr THEN Outcome(HandleHTTPError(c.err), cc, c.rules, c.nextID, mappings)
       ELSE IF res.err # NoErr
            THEN Outcome(HandleHTTPError(res.err), cs, c.rules, c.nextID, ls.mappings)
       ELSE Outcome(Response("201", "rule", NoErr, <<res.res>>), cs, c.rules, c.nextID,
                    ls.mappings)

handlePutNotificationRule(idStr, body, auth, storeFail, labelFail, taskFail) ==
    LET d == decodePutNotificationRuleRequest(idStr, body)
        a == GetAuthorizer(auth)
        u == UpdateNotificationRule(d.nr.id, d.nr, storeFail)
        cu == StoreCalls("UpdateNotificationRule", d.nr.id, u, <<>>)
        l == FindResourceLabels(mappings, u.nr.id, labelFail)
        cl == cu \o <<Call("FindResourceLabels", u.nr.id, l.err, l.labels)>>
        res == newNotificationRuleResponse(u.rules, u.nr, l.labels, taskFail)
    IN IF d.panic THEN Unchanged(Panic, <<>>)
       ELSE IF d.err # NoErr THEN Unchanged(HandleHTTPError(d.err), <<>>)
       ELSE IF a # NoErr THEN Unchanged(HandleHTTPError(a), <<>>)
       ELSE IF u.err # NoErr THEN Unchanged(HandleHTTPError(u.err), cu)
       ELSE IF u.nr = NilRule THEN Unchanged(Panic, cu)
       ELSE IF l.err # NoErr THEN Outcome(HandleHTTPError(l.err), cl, u.rules, nextID, mappings)
       ELSE IF res.err # NoErr
            THEN Outcome(HandleHTTPError(res.err), cl \o res.calls, u.rules, nextID, mappings)
       ELSE Outcome(Response("200", "rule", NoErr, <<res.res>>), cl \o res.calls, u.rules,
                    nextID, mappings)

handlePatchNotificationRule(idStr, body, storeFail, labelFail, taskFail) ==
    LET d == decodePatchNotificationRuleRequest(idStr, body)
        u == PatchNotificationRule(d.id, d.upd, storeFail)
        cu == StoreCalls("PatchNotificationRule", d.id, u, <<>>)
        l == FindResourceLabels(mappings, u.nr.id, labelFail)
        cl == cu \o <<Call("FindResourceLabels", u.nr.id, l.err, l.labels)>>
        res == newNotificationRuleResponse(u.rules, u.nr, l.labels, taskFail)
    IN IF d.err # NoErr THEN Unchanged(HandleHTTPError(d.err), <<>>)
       ELSE IF u.err # NoErr THEN Unchanged(HandleHTTPError(u.err), cu)
       ELSE IF u.nr = NilRule THEN Unchanged(Panic, cu)
       ELSE IF l.err # NoErr THEN Outcome(HandleHTTPError(l.err), cl, u.rules, nextID, mappings)
       ELSE IF res.err # NoErr
            THEN Outcome(HandleHTTPError(res.err), cl \o res.calls, u.rules, nextID, mappings)
       ELSE Outcome(Response("200", "rule", NoErr, <<res.res>>), cl \o res.calls, u.rules,
                    nextID, mappings)


----------------------------------------------------------------------------
(* Requests *)

\* path identifiers: missing, too short, not hexadecimal, zero, and valid ones
PathIDs ==
    {<<>>, <<"1">>, Pad(IDLength - 1) \o <<"g">>, Pad(IDLength)}
    \cup {IDString(i) : i \in 1..(MaxRules + 1)}

MalformedPathIDs == {s \in PathIDs : decodeGetNotificationRuleRequest(s).err # NoErr}

\* label-ID strings: of a label that exists, of one that does not, a malformed one
LabelStrs == {IDString(1), IDString(2), <<"z">>}

LabelLists == UNION {[1..n -> LabelStrs] : n \in 0..MaxLabelStrs}

CreateBodies ==
    {Body(k, "a", <<>>) : k \in {"unreadable", "badType", "badStatus", "badLabels", "noStatus"}}
    \cup {Body("ok", "a", ls) : ls \in LabelLists}

PutBodies ==
    {Body(k, "b", <<>>) : k \in {"unreadable", "badType", "badStatus", "noStatus"}}
    \cup {Body("ok", "b", <<>>)}

\* a changeset that is no JSON, one that sets nothing, an invalid and a valid one
PatchBodies ==
    {Body("badJSON", "nil", <<>>)} \cup {Body("ok", n, <<>>) : n \in {"nil", "", "a"}}

GoodTag == <<"k", ":", "v">>
BadTag == <<"k", "v">>

NoQuery == Query(<<>>, <<>>, <<>>, <<>>, <<>>, 0)

ListQueries ==
    {Query(<<>>, <<>>, <<>>, <<>>, <<>>, l) : l \in 0..MaxRules}
    \cup {Query(<<"1">>, <<>>, <<>>, <<>>, <<BadTag, GoodTag>>, MaxRules),
          Query(<<>>, <<>>, <<"1">>, <<>>, <<>>, MaxRules),
          Query(<<>>, <<>>, IDString(1), <<"o">>, <<GoodTag>>, MaxRules),
          Query(<<>>, <<>>, <<>>, <<"o">>, <<>>, MaxRules)}

Request(op, id, auth, body, q) ==
    [op |-> op, id |-> id, auth |-> auth, body |-> body, q |-> q]

NoRequest == Request("none", <<>>, FALSE, NoBody, NoQuery)

----------------------------------------------------------------------------
(* The state machine: one action per route *)

Init ==
    /\ store \in StoreImpls
    /\ rules = <<>>
    /\ nextID = 1
    /\ mappings = {}
    /\ req = NoRequest
    /\ resp = NoResponse
    /\ calls = <<>>
    /\ acked = {}

\* a request is taken when no other is being handled
Handled(r, o) ==
    /\ req = NoRequest
    /\ req' = r
    /\ resp' = o.resp
    /\ calls' = o.calls
    /\ rules' = o.rules
    /\ nextID' = o.nextID
    /\ mappings' = o.mappings
    /\ acked' = IF r.op = "delete" /\ o.resp.status = "204"
                THEN acked \cup {DecodeFromString(r.id).id} ELSE acked
    /\ UNCHANGED store

\* Collaborator failures are inputs.  A handler stops at the first call that
\* fails, so the actions draw the failing call, not one flag per call; the
\* per-item failures of list and of label attachment are drawn as sets.
PostNotificationRule ==
    /\ nextID <= MaxRules
    /\ \E body \in CreateBodies, auth \in BOOLEAN, storeFail \in BOOLEAN, taskFail \in BOOLEAN :
         \E mapFail \in SUBSET (1..Len(body.labels)) :
            /\ (~auth \/ storeFail) => (mapFail = {} /\ ~taskFail)
            /\ Handled(Request("create", <<>>, auth, body, NoQuery),
                       handlePostNotificationRule(body, auth, storeFail, mapFail, taskFail))

GetNotificationRules ==
    \E q \in ListQueries, storeFail \in BOOLEAN :
        \E labelFail \in SUBSET (DOMAIN rules), taskFail \in SUBSET (DOMAIN rules) :
            /\ storeFail => (labelFail = {} /\ taskFail = {})
            /\ Handled(Request("list", <<>>, FALSE, NoBody, q),
                       handleGetNotificationRules(q, storeFail, labelFail, taskFail))

GetNotificationRule ==
    \E id \in PathIDs, fail \in {"none", "store", "labels", "task"} :
        Handled(Request("get", id, FALSE, NoBody, NoQuery),
                handleGetNotificationRule(id, fail = "store", fail = "labels", fail = "task"))

GetNotificationRuleQuery ==
    \E id \in PathIDs, fail \in {"none", "store", "endpoint", "flux"} :
        Handled(Request("query", id, FALSE, NoBody, NoQuery),
                handleGetNotificationRuleQuery(id, fail = "store", fail = "endpoint",
                                               fail = "flux"))

PutNotificationRule ==
    \E id \in PathIDs, body \in PutBodies, auth \in BOOLEAN :
        \E fail \in {"none", "store", "labels", "task"} :
            /\ ~auth => fail = "none"
            /\ Handled(Request("put", id, auth, body, NoQuery),
                       handlePutNotificationRule(id, body, auth, fail = "store",
                                                 fail = "labels", fail = "task"))

PatchNotificationRule_ ==
    \E id \in PathIDs, body \in PatchBodies :
        \E fail \in {"none", "store", "labels", "task"} :
            Handled(Request("patch", id, FALSE, body, NoQuery),
                    handlePatchNotificationRule(id, body, fail = "store", fail = "labels",
                                                fail = "task"))

DeleteNotificationRule_ ==
    \E id \in PathIDs, storeFail \in BOOLEAN :
        Handled(Request("delete", id, FALSE, NoBody, NoQuery),
                handleDeleteNotificationRule(id, storeFail))

\* the response is written and the handler returns
Respond ==
    /\ req # NoRequest
    /\ req' = NoRequest
    /\ resp' = NoResponse
    /\ calls' = <<>>
    /\ UNCHANGED <<store, rules, nextID, mappings, acked>>

\* the backend of the rule's labels sub-resource routes
labelBackend == [ResourceType |-> TelegrafsResourceType]

\* newPostLabelHandler(b): maps the label of the body to the resource of the
\* path, with the resource type of its backend
newPostLabelHandler(b, idStr, labelStr, mapFail) ==
    LET i == DecodeFromString(idStr)
        lid == DecodeFromString(labelStr)
        mapping == [LabelID |-> lid.id, ResourceID |-> i.id, ResourceType |-> b.ResourceType]
        label == FindLabelByID(lid.id)
        cm == CreateLabelMapping(mappings, mapping, mapFail)
        cMap == <<Call("CreateLabelMapping", mapping, cm.err, <<>>)>>
        cFind == <<Call("FindLabelByID", lid.id, label.err, <<>>)>>
    IN IF idStr = <<>> THEN Unchanged(HandleHTTPError(Err(EInvalid, "url missing id")), <<>>)
       ELSE IF i.err # NoErr THEN Unchanged(HandleHTTPError(i.err), <<>>)
       ELSE IF lid.err # NoErr THEN Unchanged(HandleHTTPError(lid.err), <<>>)
       ELSE IF label.err # NoErr THEN Unchanged(HandleHTTPError(label.err), cFind)
       ELSE IF cm.err # NoErr THEN Unchanged(HandleHTTPError(cm.err), cFind \o cMap)
       ELSE Outcome(Response("201", "label", NoErr, <<>>), cFind \o cMap, rules, nextID,
                    cm.mappings)

PostNotificationRuleLabel ==
    \E id \in PathIDs, label \in LabelStrs, mapFail \in BOOLEAN :
        Handled(Request("postLabel", id, FALSE, Body("ok", "nil", <<label>>), NoQuery),
                newPostLabelHandler(labelBackend, id, label, mapFail))

\* the routes that create label mappings
LabelNext ==
    \/ PostNotificationRuleLabel
    \/ PostNotificationRule
    \/ Respond

LabelSpec == Init /\ [][LabelNext]_vars

\* the list route alone, over the query strings of the filter decoder
OtherTag == <<"a", ":", "b">>

FilterIDs == {<<>>, IDString(1), <<"z">>}

FilterQueries ==
    {Query(rid, uid, oid, org, tags, l) :
        rid \in FilterIDs, uid \in FilterIDs, oid \in FilterIDs, org \in {<<>>, <<"o">>},
        tags \in UNION {[1..n -> {GoodTag, BadTag, OtherTag}] : n \in 0..MaxTags},
        l \in {0, 1}}

GetFilteredNotificationRules ==
    \E q \in FilterQueries, storeFail \in BOOLEAN :
        Handled(Request("list", <<>>, FALSE, NoBody, q),
                handleGetNotificationRules(q, storeFail, {}, {}))

FilterNext ==
    \/ Respond
    \/ GetFilteredNotificationRules

FilterSpec == Init /\ [][FilterNext]_vars

Next ==
    \/ Respond
    \/ PostNotificationRule
    \/ GetNotificationRules
    \/ GetNotificationRule
    \/ GetNotificationRuleQuery
    \/ PutNotificationRule
    \/ PatchNotificationRule_
    \/ DeleteNotificationRule_

Spec == Init /\ [][Next]_vars


----------------------------------------------------------------------------
(* Properties *)

\* the rule IDs of a sequence of documents, and of a sequence of rules
DocIDs(docs) == [i \in 1..Len(docs) |-> docs[i].rule.id]
RuleIDs(nrs) == [i \in 1..Len(nrs) |-> nrs[i].id]

CallsTo(op) == SelectSeq(calls, LAMBDA c : c.op = op)

\* the identifier strings that are well formed: 16 hex digits, not zero
WellFormedIDs == {IDString(i) : i \in 1..15}

IDOf(s) == CHOOSE i \in 1..15 : IDString(i) = s

\* the list request got the rules from the store
ListAnswered ==
    /\ req.op = "list"
    /\ calls # <<>>
    /\ calls[1].op = "FindNotificationRules"
    /\ calls[1].err = NoErr

StoreReturned == calls[1].ret.nrs

TaskLookupOf(nr) ==
    {i \in 1..Len(calls) : calls[i].op = "FindTaskByID" /\ calls[i].arg = nr.taskID}

TaskLookupSucceeded(nr) == \E i \in TaskLookupOf(nr) : calls[i].err = NoErr

\* C1: whatever rules the store returns to a list request and whichever of
\* their task-status lookups fail, the request is answered 200 and the answer
\* holds exactly the rules whose task-status lookup succeeded.
C1_ListDropsRulesWithoutTaskStatus ==
    ListAnswered =>
        /\ resp.status = "200"
        /\ resp.kind = "rules"
        /\ DocIDs(resp.docs) = RuleIDs(SelectSeq(StoreReturned, TaskLookupSucceeded))

\* a list of two rules of which one lost its task-status lookup
C1_Witness ==
    /\ ListAnswered
    /\ Len(StoreReturned) = 2
    /\ \E nr \in {StoreReturned[1], StoreReturned[2]} : ~TaskLookupSucceeded(nr)
    /\ Len(resp.docs) = 1

\* the create request got past the store's create, so labels were attached
LabelsAttached ==
    /\ req.op = "create"
    /\ calls # <<>>
    /\ calls[1].op = "CreateNotificationRule"
    /\ calls[1].err = NoErr

Requested == req.body.labels

ValidPositions == {i \in 1..Len(Requested) : Requested[i] \in WellFormedIDs}

ResolvablePositions == {i \in ValidPositions : IDOf(Requested[i]) \in ExistingLabels}

MappedLabels ==
    LET ok == SelectSeq(CallsTo("CreateLabelMapping"), LAMBDA c : c.err = NoErr)
    IN [i \in 1..Len(ok) |-> ok[i].arg.LabelID]

\* C2 as stated: a create answered 201 whose request names K valid and
\* resolvable label IDs carries exactly K labels.
C2_ExactlyKLabels ==
    (req.op = "create" /\ resp.status = "201") =>
        Len(resp.docs[1].labels) = Cardinality(ResolvablePositions)

\* C2, amended: label attachment looks up every valid label ID and tries to
\* map every resolvable one, wherever the others stand in the list, and never
\* makes the request fail; the 201 answer carries, in request order, the labels
\* whose mapping was created: K of them unless a mapping creation failed.
C2_LabelsWhoseMappingWasCreated ==
    LabelsAttached =>
        /\ Len(CallsTo("FindLabelByID")) = Cardinality(ValidPositions)
        /\ Len(CallsTo("CreateLabelMapping")) = Cardinality(ResolvablePositions)
        /\ resp.status = "error" => resp.err \notin {ErrLabelNotFound, ErrMapping}
        /\ resp.status = "201" =>
              /\ resp.docs[1].labels = MappedLabels
              /\ Len(resp.docs[1].labels) <= Cardinality(ResolvablePositions)
              /\ (\A c \in {CallsTo("CreateLabelMapping")[i] :
                              i \in 1..Len(CallsTo("CreateLabelMapping"))} : c.err = NoErr)
                     => Len(resp.docs[1].labels) = Cardinality(ResolvablePositions)

\* a 201 whose first label ID is malformed and whose second one was attached
C2_Witness ==
    /\ req.op = "create"
    /\ resp.status = "201"
    /\ Len(Requested) = 2
    /\ Requested[1] \notin WellFormedIDs
    /\ resp.docs[1].labels = <<1>>

\* C3: every rule document of a successful response (the one of create, get,
\* replace and patch, each one of list) has its private data cleared.
C3_NoPrivateDataInResponses ==
    resp.status \in {"200", "201"} =>
        \A i \in 1..Len(resp.docs) : resp.docs[i].rule.private = ""

\* a document sent for a rule whose stored form holds private data
C3_Witness ==
    /\ resp.status \in {"200", "201"}
    /\ \E i \in 1..Len(resp.docs) :
          /\ resp.docs[i].rule.id \in DOMAIN rules
          /\ rules[resp.docs[i].rule.id].private = Secret
          /\ resp.docs[i].rule.private = ""


\* the routes that take the rule's ID from the path
PathOps == {"get", "put", "patch", "delete", "query"}

\* C4: a get, replace, patch, delete or get-query request whose path ID is
\* missing or malformed ends with an invalid-argument error, and no
\* collaborator (so no store lookup that could answer not-found) was called.
C4_MalformedIDIsInvalidArgument ==
    (req.op \in PathOps /\ req.id \notin WellFormedIDs) =>
        /\ resp.status = "error"
        /\ resp.err.code = EInvalid
        /\ calls = <<>>

\* a replace with a sound body whose path ID is sixteen zeros
C4_Witness ==
    /\ req.op = "put"
    /\ req.body.kind = "ok"
    /\ req.auth
    /\ req.id = Pad(IDLength)
    /\ resp.err = ErrInvalidID

FailedCalls(op) == SelectSeq(CallsTo(op), LAMBDA c : c.err # NoErr)

\* C5: in get, replace and patch a failed task-status lookup, and in get a
\* failed label fetch, ends the request with the error of that call and no
\* rule document.
C5_MandatoryLookupsPropagate ==
    /\ (req.op \in {"get", "put", "patch"} /\ FailedCalls("FindTaskByID") # <<>>) =>
          /\ resp.status = "error"
          /\ resp.err = FailedCalls("FindTaskByID")[1].err
          /\ resp.docs = <<>>
    /\ (req.op = "get" /\ FailedCalls("FindResourceLabels") # <<>>) =>
          /\ resp.status = "error"
          /\ resp.err = FailedCalls("FindResourceLabels")[1].err
          /\ resp.docs = <<>>

\* a patch the store applied, whose task-status lookup then failed
C5_Witness ==
    /\ req.op = "patch"
    /\ CallsTo("PatchNotificationRule") # <<>>
    /\ CallsTo("PatchNotificationRule")[1].err = NoErr
    /\ FailedCalls("FindTaskByID") # <<>>
    /\ resp.err = ErrTask

LabelFetchOf(nr) ==
    {i \in 1..Len(calls) : calls[i].op = "FindResourceLabels" /\ calls[i].arg = nr.id}

LabelFetchFailed(nr) == \E i \in LabelFetchOf(nr) : calls[i].err # NoErr

DocsOf(nr) == SelectSeq(resp.docs, LAMBDA d : d.rule.id = nr.id)

\* the labels the label service holds for a rule
StoredLabels(id) == SortedSeq({m.LabelID : m \in {x \in mappings : x.ResourceID = id}})

\* C6: in a list, a rule whose label fetch failed still has its task status
\* fetched and, that lookup succeeding, is in the answer with an empty label
\* list; every other rule of the answer carries the labels stored for it.
C6_LabelFailureEmptiesOneLabelList ==
    ListAnswered =>
        \A k \in 1..Len(StoreReturned) :
            LET nr == StoreReturned[k]
            IN /\ TaskLookupOf(nr) # {}
               /\ (LabelFetchFailed(nr) /\ TaskLookupSucceeded(nr)) =>
                     (Len(DocsOf(nr)) = 1 /\ DocsOf(nr)[1].labels = <<>>)
               /\ (~LabelFetchFailed(nr) /\ TaskLookupSucceeded(nr)) =>
                     (Len(DocsOf(nr)) = 1 /\ DocsOf(nr)[1].labels = StoredLabels(nr.id))

\* two labelled rules listed, the label fetch of the second one failed
C6_Witness ==
    /\ ListAnswered
    /\ Len(StoreReturned) = 2
    /\ StoredLabels(StoreReturned[1].id) # <<>>
    /\ StoredLabels(StoreReturned[2].id) # <<>>
    /\ LabelFetchFailed(StoreReturned[2])
    /\ ~LabelFetchFailed(StoreReturned[1])
    /\ Len(resp.docs) = 2
    /\ resp.docs[1].labels # <<>>
    /\ resp.docs[2].labels = <<>>

RECURSIVE IsSubsequence(_, _)
IsSubsequence(a, b) ==
    IF a = <<>> THEN TRUE
    ELSE IF b = <<>> THEN FALSE
    ELSE IF Head(a) = Head(b) THEN IsSubsequence(Tail(a), Tail(b))
    ELSE IsSubsequence(a, Tail(b))

\* C7: the documents of a list answer are no more than the store's match
\* count and are a subsequence, in the store's order, of the rules it returned.
C7_ListKeepsCountAndOrder ==
    ListAnswered =>
        /\ Len(resp.docs) <= calls[1].ret.n
        /\ IsSubsequence(DocIDs(resp.docs), RuleIDs(StoreReturned))

\* both rules of a page of two are in the answer
C7_Witness ==
    /\ ListAnswered
    /\ Len(StoreReturned) = 2
    /\ Len(resp.docs) = 2

DeletedID == IDOf(req.id)

\* C8 as stated: once a delete of an ID was answered 204, the rule is gone for
\* good and a later delete of that ID is answered with the store's error, not
\* with 204.
C8_DeleteIsTerminal ==
    [][(req'.op = "delete" /\ req'.id \in WellFormedIDs) =>
          /\ DeletedID' \in acked => resp'.status = "error"
          /\ resp'.status = "204" => DeletedID' \notin DOMAIN rules']_vars

PatchDecodingFails ==
    /\ req.op = "patch"
    /\ req.id \notin WellFormedIDs \/ req.body.kind # "ok" \/ req.body.name = ""

\* C9: a patch whose path ID or changeset does not decode, or whose changeset
\* is not valid, ends with invalid-argument without any call to the store, and
\* the stored rules are as they were.
C9_PatchValidatesBeforeStore ==
    [][PatchDecodingFails' =>
          /\ resp'.status = "error"
          /\ resp'.err.code = EInvalid
          /\ calls' = <<>>
          /\ rules' = rules]_vars

\* an invalid changeset for a rule that exists
C9_Witness ==
    /\ req.op = "patch"
    /\ req.id \in WellFormedIDs
    /\ DeletedID \in DOMAIN rules
    /\ req.body.kind = "ok"
    /\ req.body.name = ""
    /\ resp.err.code = EInvalid

\* the request decodes: the principal is the next thing the handler asks for
Decodes ==
    \/ req.op = "create" /\ req.body.kind = "ok"
    \/ req.op = "put" /\ req.body.kind = "ok" /\ req.id \in WellFormedIDs

\* C10: a create or replace request without an authenticated principal never
\* reaches the store: no rule and no label mapping is created or changed; once
\* decoded, the request ends with the authorizer's error.
C10_NoPrincipalNoStoreCall ==
    [][(req'.op \in {"create", "put"} /\ ~req'.auth) =>
          /\ calls' = <<>>
          /\ rules' = rules
          /\ mappings' = mappings
          /\ Decodes' => (resp'.status = "error" /\ resp'.err = ErrNoAuthorizer)]_vars

\* a replace of a rule that exists, sent without a principal
C10_Witness ==
    /\ req.op = "put"
    /\ ~req.auth
    /\ Decodes
    /\ DeletedID \in DOMAIN rules
    /\ resp.err = ErrNoAuthorizer

\* C11 as stated: a create whose body does not decode into a rule with a
\* status and labels ends with an invalid-argument error and the store's
\* create is not called.
C11_UndecodableCreateIsInvalidArgument ==
    (req.op = "create" /\ req.body.kind # "ok") =>
        /\ resp.status = "error"
        /\ resp.err.code = EInvalid
        /\ CallsTo("CreateNotificationRule") = <<>>

\* the filter the list handler handed to the store
StoreCalled == calls # <<>> /\ calls[1].op = "FindNotificationRules"
FilterUsed == calls[1].arg

SubFilterFails ==
    \/ req.q.resourceID # <<>> /\ req.q.resourceID \notin WellFormedIDs
    \/ req.q.userID # <<>> /\ req.q.userID \notin WellFormedIDs

OrgIDGiven == req.q.orgID # <<>>
OrgNameGiven == req.q.orgID = <<>> /\ req.q.org # <<>>

\* nothing but the sub-filter and the tags is wrong with the query
RestDecodes ==
    /\ req.op = "list"
    /\ req.q.limit >= 1
    /\ OrgIDGiven => req.q.orgID \in WellFormedIDs
    /\ ~OrgNameGiven

\* C12 as stated: when the user/resource-mapping sub-filter does not decode,
\* the decode still succeeds and the filter's sub-filter has the
\* notification-rule resource type and no user or resource ID.
C12_FailedSubFilterIsTypeScoped ==
    (RestDecodes /\ SubFilterFails) =>
        /\ StoreCalled
        /\ FilterUsed.UserResourceMappingFilter =
              [ResourceType |-> NotificationRuleResourceType, ResourceID |-> 0, UserID |-> 0]

TagIsWellFormed(t) == NewTag(t).err = NoErr

WellFormedTags(tags) ==
    LET kept == SelectSeq(tags, TagIsWellFormed)
    IN [i \in 1..Len(kept) |-> NewTag(kept[i]).tag[1]]

\* C13: whatever the tag parameters of a list request, the decode does not
\* fail because of them: the filter handed to the store holds the well-formed
\* tags in request order and no other, and the store answering, the response
\* is 200.
C13_MalformedTagsAreDropped ==
    RestDecodes =>
        /\ StoreCalled
        /\ FilterUsed.Tags = WellFormedTags(req.q.tags)
        /\ calls[1].err = NoErr => resp.status = "200"

\* a malformed tag in front of a well-formed one
C13_Witness ==
    /\ RestDecodes
    /\ req.q.tags = <<BadTag, GoodTag>>
    /\ StoreCalled
    /\ Len(FilterUsed.Tags) = 1
    /\ resp.status = "200"

\* C14 as stated: an orgID parameter is bound as the organization ID or the
\* request fails with invalid-argument; without orgID, an org parameter is
\* bound as the organization name and the decode completes.
C14_OrganizationSelection ==
    (req.op = "list" /\ req.q.limit >= 1) =>
        /\ OrgIDGiven =>
              \/ resp.status = "error" /\ resp.err.code = EInvalid /\ calls = <<>>
              \/ /\ req.q.orgID \in WellFormedIDs
                 /\ StoreCalled
                 /\ FilterUsed.OrgID = IDOf(req.q.orgID)
        /\ OrgNameGiven => (StoreCalled /\ FilterUsed.Organization = req.q.org)

\* the rule and its endpoint were found
EndpointFound ==
    /\ req.op = "query"
    /\ CallsTo("FindNotificationEndpointByID") # <<>>
    /\ CallsTo("FindNotificationEndpointByID")[1].err = NoErr

StubOps ==
    {"FindNotificationRules", "UpdateNotificationRule", "PatchNotificationRule",
     "DeleteNotificationRule"}

WiredOps == {"CreateNotificationRule", "FindNotificationRuleByID"}

C17_MappingsAreOfTheRule ==
    [][\A m \in mappings' \ mappings :
          /\ m.ResourceType = NotificationRuleResourceType
          /\ req'.op = "create" => m.ResourceID = nextID
          /\ req'.op = "postLabel" => m.ResourceID = IDOf(req'.id)]_vars

\* the label mappings the calls of the request created
MappingsMade ==
    {calls[i].arg : i \in {j \in DOMAIN calls : calls[j].op = "CreateLabelMapping"
                                                 /\ calls[j].err = NoErr}}

\* the store's create was the first call of the request and succeeded
RuleCreated ==
    /\ calls # <<>>
    /\ calls[1].op = "CreateNotificationRule"
    /\ calls[1].err = NoErr

AfterCreate == {"FindLabelByID", "CreateLabelMapping", "FindTaskByID"}

\* C18: in a create request the label and task calls come only after the
\* store's create has succeeded; when the task-status lookup then fails the
\* answer is an error, and yet the new rule is stored, the other rules are as
\* before and every label mapping made stays; when the store's create failed
\* or was not reached, no label mapping is made.
C18_CreateIsNotAtomic ==
    [][req'.op = "create" =>
          /\ (\E i \in DOMAIN calls' : calls'[i].op \in AfterCreate) => RuleCreated'
          /\ FailedCalls("FindTaskByID")' # <<>> =>
                /\ resp'.status = "error"
                /\ nextID \notin DOMAIN rules
                /\ nextID \in DOMAIN rules'
                /\ \A id \in DOMAIN rules : rules'[id] = rules[id]
                /\ mappings' = mappings \cup MappingsMade'
          /\ ~RuleCreated' => mappings' = mappings]_vars

\* a create that stored the rule and one label mapping, then failed on the
\* task-status lookup
C18_Witness ==
    /\ req.op = "create"
    /\ store = "kv"
    /\ RuleCreated
    /\ FailedCalls("FindTaskByID") # <<>>
    /\ resp.status = "error"
    /\ resp.err = ErrTask
    /\ MappingsMade # {}
    /\ MappingsMade \subseteq mappings
    /\ \A m \in MappingsMade : m.ResourceID \in DOMAIN rules


====
